---- MODULE Spec2Model ----
(***************************************************************************)
(* Model of FFmpegDecoder (src/src/decoder.cpp) and of the calls the NAPI  *)
(* wrapper (src/src/binding.cpp) makes on it.                              *)
(*                                                                         *)
(* The media backend (libavformat / libavcodec / libswresample) is an      *)
(* external collaborator.  It is modelled by what the decoder relies on:   *)
(*   - the container is a finite sequence of packets with a read position; *)
(*   - the codec holds back the frames of the last DecDelay packets until  *)
(*     newer packets (or the flush packet) arrive, and hands out ready     *)
(*     frames one at a time;                                               *)
(*   - the resampler is a delay line: it keeps the last swrDelay sample    *)
(*     frames until it is flushed, and never writes more than out_count    *)
(*     sample frames per call.                                             *)
(* A sample frame is identified by a number k; its two interleaved output  *)
(* floats are 2k-1 (left) and 2k (right).                                  *)
(***************************************************************************)
EXTENDS Integers, Sequences, FiniteSets, TLC

\* ---------------------------------------------------------------- bounds
\* the output sample rate of a caller that does not take the default
SmallRate == 1
\* largest sample count a caller passes to read
MaxRead == 2
\* a backend call of one read may fail: the calls numbered 1..MaxFault
MaxFault == 3
\* number of packets the codec holds back before it emits their frames
DecDelay == 1
\* number of sample frames the resampler holds back until flushed
SwrDelay == 1
\* the longest such delay (SpecLive): the sample frames of the whole source
MaxSwrDelay == 4
\* open calls a caller makes on a session that still holds a resource
MaxReopen == 1
\* iterations of the decodeNextFrame loop explored before it is reported as
\* not returning
MaxLoop == 12
\* longest track/disc tag text
MaxTagLen == 3
\* streams a container has besides its audio stream
MaxExtraStreams == 2

\* ------------------------------------------------------- program constants
OUTPUT_CHANNELS == 2
OUTPUT_SAMPLE_RATE == 44100
DEFAULT_OUTPUT_SAMPLE_RATE == 44100

\* ------------------------------------------------------------ the container
\* stream 0 is the first audio stream, stream 1 is some other stream.
\* Each packet of stream 0 decodes to the listed frames (sequences of sample
\* frame ids); key: a seek can land on the packet.
Packets ==
  << [stream |-> 0, key |-> TRUE, frames |-> << <<1>> >>],
     [stream |-> 1, key |-> FALSE, frames |-> << >>],
     [stream |-> 0, key |-> TRUE, frames |-> << <<2, 3>>, <<4>> >>] >>

NPackets == Len(Packets)

\* value read from memory the program never wrote
Garbage == 0 - 1

\* the element of a one-element set: { F(v) : v \in {e} } computes e once,
\* however often F uses it
The(S) == CHOOSE x \in S : TRUE
Min(a, b) == IF a < b THEN a ELSE b
Max(a, b) == IF a > b THEN a ELSE b

RECURSIVE Flatten(_)
Flatten(ss) == IF ss = << >> THEN << >> ELSE Head(ss) \o Flatten(Tail(ss))

\* interleaved stereo float32 output of a sequence of sample frames
RECURSIVE Interleave(_)
Interleave(fs) ==
  IF fs = << >> THEN << >>
  ELSE << 2 * Head(fs) - 1, 2 * Head(fs) >> \o Interleave(Tail(fs))

Take(q, n) == SubSeq(q, 1, Min(n, Len(q)))
Drop(q, n) == SubSeq(q, Min(n, Len(q)) + 1, Len(q))

VARIABLES
  formatCtx,        \* container handle is non-null
  codecCtx,         \* codec context is non-null
  swrCtx,           \* resampler context is non-null
  sampleBuffer,     \* staging buffer is allocated
  audioStreamIndex,
  sampleBufferSize,
  samplesInBuffer,
  bufferReadPos,
  eofSignaled,
  decoderDrained,
  resamplerDrained,
  outputSampleRate,
  threadCount,
  sampleBufferData, \* the floats written to the staging buffer, from index 1
  pos,              \* container: number of packets already read
  decReady,         \* codec: frames ready to be received
  decHeld,          \* codec: frame lists of the packets still held back
  decDraining,      \* codec: the flush packet has been sent
  swrBuf,           \* resampler: sample frames buffered
  swrInit,          \* resampler: swr_init succeeded on the current context
  leaked,           \* resources whose only pointer was overwritten
  crashed,          \* the process died on an invalid memory access
  reopens,          \* open calls made on a session that held a resource
  last,             \* the last call made on the session, with its result
  stream,           \* what the caller received since the last reset
  media,            \* the file: its track and disc tags and its streams
  swrDelay          \* resampler: the sample frames its filter keeps back

vars == << formatCtx, codecCtx, swrCtx, sampleBuffer, audioStreamIndex,
           sampleBufferSize, samplesInBuffer, bufferReadPos, eofSignaled,
           decoderDrained, resamplerDrained, outputSampleRate, threadCount,
           sampleBufferData, pos, decReady, decHeld, decDraining, swrBuf,
           swrInit, leaked, crashed, reopens, last, stream, media,
               swrDelay >>

\* ------------------------------------------------------- the media backend
\* The state the decode loop works on, as one record.
Pipeline ==
  [ samplesInBuffer |-> samplesInBuffer, bufferReadPos |-> bufferReadPos,
    eofSignaled |-> eofSignaled, decoderDrained |-> decoderDrained,
    resamplerDrained |-> resamplerDrained, data |-> sampleBufferData,
    pos |-> pos, decReady |-> decReady, decHeld |-> decHeld,
    decDraining |-> decDraining, swrBuf |-> swrBuf,
    delay |-> swrDelay, calls |-> 0, log |-> << >>, emitted |-> << >> ]

\* a fallible backend call: the call numbered `fault` of this read fails
Fails(s, fault) == s.calls + 1 = fault

\* every backend call is noted with the drain state it was made in
Note(s, name) ==
  [s EXCEPT !.log = Append(@, [ev |-> name, eof |-> s.eofSignaled,
                               dd |-> s.decoderDrained,
                               pending |-> Len(s.decReady) + Len(s.decHeld),
                               ready |-> Len(s.decReady),
                               unread |-> s.samplesInBuffer - s.bufferReadPos])]
Call(s) == [s EXCEPT !.calls = @ + 1]

\* avcodec_receive_frame: a ready frame, else end (after the flush packet),
\* else needs-more-input; or a decoder failure
avcodec_receive_frame(s, fault) ==
  IF Fails(s, fault)
    THEN [st |-> Note(Call(s), "recv_err"), ret |-> "ERR", frame |-> << >>]
  ELSE IF s.decReady # << >>
    THEN [st |-> Note([Call(s) EXCEPT !.decReady = Tail(@)], "recv_ok"),
          ret |-> "OK", frame |-> Head(s.decReady)]
  ELSE IF s.decDraining
    THEN [st |-> Note(Call(s), "recv_eof"), ret |-> "EOF", frame |-> << >>]
  ELSE [st |-> Note(Call(s), "recv_eagain"), ret |-> "EAGAIN", frame |-> << >>]

\* the frames the codec releases: all but those of the newest DecDelay packets
Released(held) == Flatten(Take(held, Max(Len(held) - DecDelay, 0)))
StillHeld(held) == Drop(held, Max(Len(held) - DecDelay, 0))

\* avcodec_send_packet with a packet of the selected stream
avcodec_send_packet(s, pkt, fault) ==
  IF Fails(s, fault)
    THEN [st |-> Note(Call(s), "send_err"), ret |-> "ERR"]
  ELSE LET held == Append(s.decHeld, pkt.frames)
       IN [st |-> Note([Call(s) EXCEPT !.decReady = @ \o Released(held),
                                       !.decHeld = StillHeld(held)],
                       "send"),
           ret |-> "OK"]

\* avcodec_send_packet(codecCtx, nullptr): the codec starts draining
avcodec_send_flush(s) ==
  Note([s EXCEPT !.decReady = @ \o Flatten(s.decHeld), !.decHeld = << >>,
                 !.decDraining = TRUE],
       "send_flush")

\* av_read_frame: the next packet, end of source, or an I/O failure
av_read_frame(s, fault) ==
  IF Fails(s, fault)
    THEN [st |-> Note(Call(s), "read_err"), ret |-> "ERR", pkt |-> << >>]
  ELSE IF s.pos >= NPackets
    THEN [st |-> Note(Call(s), "read_eof"), ret |-> "EOF", pkt |-> << >>]
  ELSE [st |-> Note([Call(s) EXCEPT !.pos = @ + 1], "read_pkt"),
        ret |-> "OK", pkt |-> Packets[s.pos + 1]]

\* swr_convert(swrCtx, &out, out_count, in, in_count): in = frame, or flush
\* (no input).  Returns the sample frames written to the staging buffer, or
\* fails (always, when the context is not initialised).
swr_convert(s, init, out_count, frame, flush, fault) ==
  LET ev == IF flush THEN "swr_flush" ELSE "swr_convert"
  IN IF Fails(s, fault) \/ ~init
       THEN [st |-> Note(Call(s), IF flush THEN "swr_flush_err"
                                  ELSE "swr_convert_err"),
             out |-> 0 - 1]
     ELSE LET buf == s.swrBuf \o frame
              avail == IF flush THEN Len(buf) ELSE Max(Len(buf) - s.delay, 0)
              n == Min(avail, out_count)
          IN [st |-> Note([Call(s) EXCEPT
                              !.swrBuf = Drop(buf, n),
                              !.data = Interleave(Take(buf, n))
                                         \o Drop(@, n * OUTPUT_CHANNELS),
                              !.emitted = @ \o Interleave(Take(buf, n))],
                          ev),
              out |-> n]

\* ------------------------------------------------ FFmpegDecoder::decodeNextFrame
\* cx: what the loop reads but does not change (audioStreamIndex,
\* sampleBufferSize, whether the resampler is initialised).
\* Result: the pipeline after the call and the returned value; hang is TRUE
\* when the loop did not return within MaxLoop iterations.
Return(s, ret) == [st |-> s, ret |-> ret, hang |-> FALSE]

\* the condition of step 2: decoder at end, resampler not yet drained
DrainResamplerAnyTime(s) == ~s.resamplerDrained
DrainResampler(s) == s.decoderDrained /\ ~s.resamplerDrained

\* 1) a pending decoded frame was resampled into the staging buffer (c: what
\* swr_convert returned)
FrameConverted(c) ==
  IF c.out < 0 THEN Return(c.st, 0 - 1)
  ELSE Return([c.st EXCEPT !.samplesInBuffer = c.out * OUTPUT_CHANNELS,
                           !.bufferReadPos = 0],
              c.out * OUTPUT_CHANNELS)

\* 2) decoder at end: the resampler was flushed (c: what swr_convert returned)
ResamplerFlushed(c) ==
  IF c.out < 0 THEN Return(c.st, 0 - 1)
  ELSE IF c.out > 0
    THEN Return([c.st EXCEPT !.samplesInBuffer = c.out * OUTPUT_CHANNELS,
                             !.bufferReadPos = 0],
                c.out * OUTPUT_CHANNELS)
  ELSE Return([c.st EXCEPT !.resamplerDrained = TRUE], 0)

RECURSIVE decodeNextFrame(_, _, _, _)
RECURSIVE FrameReceived(_, _, _, _)
RECURSIVE NoFrame(_, _, _, _)
RECURSIVE PacketRead(_, _, _, _)
RECURSIVE PacketSent(_, _, _, _)

\* (a decoder that takes needs-more-input for the end of the decoder's queue)
FrameReceivedAgainIsEnd(r, cx, fault, fuel) ==
  IF r.ret = "OK"
    THEN FrameConverted(swr_convert(r.st, cx.init, cx.size \div OUTPUT_CHANNELS,
                                    r.frame, FALSE, fault))
  ELSE IF r.ret = "EOF" \/ r.ret = "EAGAIN"
    THEN NoFrame([r.st EXCEPT !.decoderDrained = TRUE], cx, fault, fuel)
  ELSE Return(r.st, 0 - 1)

\* (a loop that empties the staging buffer when it reports the end of the
\* stream)
NoFrameClearsStaging(s, cx, fault, fuel) ==
  IF DrainResampler(s)
    THEN ResamplerFlushed(swr_convert(s, cx.init, cx.size \div OUTPUT_CHANNELS,
                                      << >>, TRUE, fault))
  ELSE IF ~s.eofSignaled
    THEN PacketRead(av_read_frame(s, fault), cx, fault, fuel)
  ELSE IF ~s.decoderDrained
    THEN decodeNextFrame(s, cx, fault, fuel - 1)
  ELSE Return([s EXCEPT !.samplesInBuffer = 0, !.bufferReadPos = 0], 0)

\* (a loop that takes every failure of av_read_frame for the end of the
\* source)
PacketReadErrorIsEof(rd, cx, fault, fuel) ==
  IF rd.ret # "OK"
    THEN decodeNextFrame(avcodec_send_flush([rd.st EXCEPT !.eofSignaled = TRUE]),
                         cx, fault, fuel - 1)
  ELSE IF rd.pkt.stream # cx.audioStreamIndex
    THEN decodeNextFrame(Note(rd.st, "skip"), cx, fault, fuel - 1)
  ELSE PacketSent(avcodec_send_packet(rd.st, rd.pkt, fault), cx, fault, fuel)

\* (a loop that sets eofSignaled without sending the flush packet)
PacketReadNoFlush(rd, cx, fault, fuel) ==
  IF rd.ret = "EOF"
    THEN decodeNextFrame([rd.st EXCEPT !.eofSignaled = TRUE],
                         cx, fault, fuel - 1)
  ELSE IF rd.ret # "OK" THEN Return(rd.st, 0 - 1)
  ELSE IF rd.pkt.stream # cx.audioStreamIndex
    THEN decodeNextFrame(Note(rd.st, "skip"), cx, fault, fuel - 1)
  ELSE PacketSent(avcodec_send_packet(rd.st, rd.pkt, fault), cx, fault, fuel)

\* (a loop that sends the flush packet at the end of the source without
\* recording that it did)
PacketReadFlushUnsignalled(rd, cx, fault, fuel) ==
  IF rd.ret = "EOF"
    THEN decodeNextFrame(avcodec_send_flush(rd.st), cx, fault, fuel - 1)
  ELSE IF rd.ret # "OK" THEN Return(rd.st, 0 - 1)
  ELSE IF rd.pkt.stream # cx.audioStreamIndex
    THEN decodeNextFrame(Note(rd.st, "skip"), cx, fault, fuel - 1)
  ELSE PacketSent(avcodec_send_packet(rd.st, rd.pkt, fault), cx, fault, fuel)

\* (a loop that reads and sends a packet first and asks the decoder for a
\* frame afterwards)
decodeNextFramePacketFirst(s, cx, fault, fuel) ==
  IF fuel = 0 THEN [st |-> s, ret |-> 0, hang |-> TRUE]
  ELSE IF ~s.eofSignaled /\ s.decReady # << >> /\ s.pos <= NPackets
    THEN PacketRead(av_read_frame(s, fault), cx, fault, fuel)
  ELSE FrameReceived(avcodec_receive_frame(s, fault), cx, fault, fuel)

\* one iteration of while (true)
decodeNextFrame(s, cx, fault, fuel) ==
  IF fuel = 0 THEN [st |-> s, ret |-> 0, hang |-> TRUE]
  ELSE The({ FrameReceived(avcodec_receive_frame(v, fault), cx, fault, fuel) :
             v \in {s} })

\* r: what avcodec_receive_frame returned
FrameReceived(r, cx, fault, fuel) ==
  IF r.ret = "OK"
    THEN FrameConverted(swr_convert(r.st, cx.init, cx.size \div OUTPUT_CHANNELS,
                                    r.frame, FALSE, fault))
  ELSE IF r.ret = "EOF"
    THEN NoFrame([r.st EXCEPT !.decoderDrained = TRUE], cx, fault, fuel)
  ELSE IF r.ret # "EAGAIN" THEN Return(r.st, 0 - 1)
  ELSE NoFrame(r.st, cx, fault, fuel)

\* steps 2 to 4
NoFrame(s, cx, fault, fuel) ==
  IF DrainResampler(s)
    THEN ResamplerFlushed(swr_convert(s, cx.init, cx.size \div OUTPUT_CHANNELS,
                                      << >>, TRUE, fault))
  ELSE IF ~s.eofSignaled
    \* 3) more input, or the flush packet at end of source
    THEN PacketRead(av_read_frame(s, fault), cx, fault, fuel)
  ELSE IF ~s.decoderDrained
    \* 4) flush packet sent, decoder not yet at end: receive again
    THEN decodeNextFrame(s, cx, fault, fuel - 1)
  ELSE Return(s, 0)

\* rd: what av_read_frame returned
PacketRead(rd, cx, fault, fuel) ==
  IF rd.ret = "EOF"
    THEN decodeNextFrame(avcodec_send_flush([rd.st EXCEPT !.eofSignaled = TRUE]),
                         cx, fault, fuel - 1)
  ELSE IF rd.ret # "OK" THEN Return(rd.st, 0 - 1)
  ELSE IF rd.pkt.stream # cx.audioStreamIndex
    THEN decodeNextFrame(Note(rd.st, "skip"), cx, fault, fuel - 1)
  ELSE PacketSent(avcodec_send_packet(rd.st, rd.pkt, fault), cx, fault, fuel)

\* sp: what avcodec_send_packet returned
PacketSent(sp, cx, fault, fuel) ==
  IF sp.ret # "OK" THEN Return(sp.st, 0 - 1)
  ELSE decodeNextFrame(sp.st, cx, fault, fuel - 1)

\* min(available, numSamples - totalRead)
CopyCountAll(available, remaining) == available
CopyCount(available, remaining) == Min(available, remaining)

\* the float at 0-based index i of the staging buffer
BufferAt(data, i) == IF i + 1 <= Len(data) THEN data[i + 1] ELSE Garbage

\* the toCopy floats memcpy takes from sampleBuffer + bufferReadPos
Copied(s, toCopy) ==
  [i \in 1..toCopy |-> BufferAt(s.data, s.bufferReadPos + i - 1)]

\* ----------------------------------------------------------- FFmpegDecoder::read
\* The loop of read, from the state s with totalRead samples in dst.
\* err: decodeNextFrame returned a negative value; oob: memcpy read past the
\* end of the allocated staging buffer.
RECURSIVE readLoop(_, _, _, _, _, _, _)
RECURSIVE Refilled(_, _, _, _, _, _, _)
RECURSIVE CopyOut(_, _, _, _, _, _, _, _)

readLoop(s, cx, numSamples, totalRead, dst, oob, fault) ==
  IF ~(totalRead < numSamples)
    THEN [st |-> s, ret |-> totalRead, dst |-> dst, err |-> FALSE,
          hang |-> FALSE, oob |-> oob]
  ELSE IF s.bufferReadPos >= s.samplesInBuffer
    THEN The({ Refilled(d, cx, numSamples, totalRead, dst, oob, fault) :
               d \in {decodeNextFrame(s, cx, fault, MaxLoop)} })
  ELSE CopyOut(s, CopyCount(s.samplesInBuffer - s.bufferReadPos,
                            numSamples - totalRead),
               cx, numSamples, totalRead, dst, oob, fault)

\* d: what decodeNextFrame returned
Refilled(d, cx, numSamples, totalRead, dst, oob, fault) ==
  IF d.hang \/ d.ret <= 0
    THEN [st |-> d.st, ret |-> totalRead, dst |-> dst, err |-> d.ret < 0,
          hang |-> d.hang, oob |-> oob]
  ELSE CopyOut(d.st, CopyCount(d.st.samplesInBuffer - d.st.bufferReadPos,
                               numSamples - totalRead),
               cx, numSamples, totalRead, dst, oob, fault)

\* copy from the internal buffer and go round the loop
CopyOut(s, toCopy, cx, numSamples, totalRead, dst, oob, fault) ==
  readLoop([s EXCEPT !.bufferReadPos = @ + toCopy], cx, numSamples,
           totalRead + toCopy, dst \o Copied(s, toCopy),
           oob \/ s.bufferReadPos + toCopy > cx.size, fault)

\* the record of a call and of what it returned
\* (arg: numSamples, kept as asked: whether it is positive, short: whether the
\* count returned is below it, over: whether the count returned is above it;
\* ok: the boolean returned, for read: whether it got past its first line;
\* ret: the count returned, for seek: the number of staged floats a successful
\* seek discarded; copied: the number of floats written to outBuffer; err:
\* decodeNextFrame returned a negative value; hang: it did not return; log:
\* the backend calls made)
Result(op, arg, ok, ret, dst, err, hang, log) ==
  [op |-> op, asked |-> arg > 0, short |-> ret < arg, over |-> ret > arg,
   ok |-> ok, ret |-> ret, copied |-> Len(dst), err |-> err, hang |-> hang,
   log |-> log]

\* the samples handed to the caller since the last reset of the pipeline:
\* kind/from: the call that reset it and the packet the source was put at;
\* clean: the resampler is initialised, no backend call failed and no
\* unwritten memory was read since; failed: a read stopped on a negative
\* return of decodeNextFrame since; emitted: the chunks the resampler wrote to
\* the staging buffer since; flushes: the flush (null) packets sent to the
\* decoder since
Epoch(kind, from, clean) ==
  [kind |-> kind, from |-> from, out |-> << >>, clean |-> clean,
   failed |-> FALSE, emitted |-> << >>, flushes |-> 0]

Alive == ~crashed /\ ~last.hang

\* ------------------------------------------------------------------ the file
\* A tag text is a sequence of characters.  A stream has a type, the
\* attached-picture disposition flag, a codec id and, when it is an attached
\* picture, the payload of its attached_pic packet.  Stream 0 is the audio
\* stream the packets of Packets belong to.
AudioStream ==
  [type |-> "audio", attached |-> FALSE, codec_id |-> "AAC", data |-> << >>]
VideoStream ==
  [type |-> "video", attached |-> FALSE, codec_id |-> "H264", data |-> << >>]
Picture(codec_id, data) ==
  [type |-> "video", attached |-> TRUE, codec_id |-> codec_id, data |-> data]

Media(track, disc, extra) ==
  [track |-> track, disc |-> disc, streams |-> << AudioStream >> \o extra]

\* the file of the streaming model: track 3 of 7, no disc tag, a PNG cover
DefaultMedia ==
  Media(<< "3", "/", "7" >>, << >>, << VideoStream, Picture("PNG", << 1 >>) >>)

\* ------------------------------------------------------------------ std::atoi
IsSpace(c) == c \in {" ", "\t", "\n", "\r"}
DigitChars == << "0", "1", "2", "3", "4", "5", "6", "7", "8", "9" >>
IsDigit(c) == \E i \in DOMAIN DigitChars : DigitChars[i] = c
DigitVal(c) == (CHOOSE i \in DOMAIN DigitChars : DigitChars[i] = c) - 1

RECURSIVE SkipSpace(_)
SkipSpace(str) ==
  IF str # << >> /\ IsSpace(Head(str)) THEN SkipSpace(Tail(str)) ELSE str

RECURSIVE Accumulate(_, _)
Accumulate(str, acc) ==
  IF str = << >> \/ ~IsDigit(Head(str)) THEN acc
  ELSE Accumulate(Tail(str), 10 * acc + DigitVal(Head(str)))

\* white space is skipped, then an optional sign, then digits up to the first
\* character that is not one; 0 when there is no digit
atoi(str) ==
  LET t == SkipSpace(str)
  IN IF t = << >> THEN 0
     ELSE IF Head(t) = "-" THEN 0 - Accumulate(Tail(t), 0)
     ELSE IF Head(t) = "+" THEN Accumulate(Tail(t), 0)
     ELSE Accumulate(t, 0)

\* std::string::find(ch): the 0-based index of the first ch, or npos
npos == 0 - 1
find(str, ch) ==
  IF \E i \in DOMAIN str : str[i] = ch
    THEN (CHOOSE i \in DOMAIN str :
            str[i] = ch /\ \A j \in 1..(i - 1) : str[j] # ch) - 1
  ELSE npos

\* ------------------------------------------- FFmpegDecoder::parseTrackNumber
\* (a parser that reads the total from the '/' on, not from the character
\* after it)
parseTrackNumberTotalAtSlash(str) ==
  IF str = << >> THEN [number |-> 0, total |-> 0]
  ELSE IF find(str, "/") # npos
    THEN [total |-> atoi(SubSeq(str, find(str, "/") + 1, Len(str))),
          number |-> atoi(SubSeq(str, 1, find(str, "/")))]
  ELSE [total |-> 0, number |-> atoi(str)]

\* the value returned (number) and the value stored through the pointer
\* (total)
parseTrackNumber(str) ==
  IF str = << >> THEN [number |-> 0, total |-> 0]
  ELSE IF find(str, "/") # npos
    THEN [total |-> atoi(SubSeq(str, find(str, "/") + 2, Len(str))),
          number |-> atoi(SubSeq(str, 1, find(str, "/")))]
  ELSE [total |-> 0, number |-> atoi(str)]

\* ------------------------------------------------ AudioMetadata::AudioMetadata
\* the track/disc fields and the cover art of the record (the string tags and
\* the format descriptors are copied from the container as they are)
AudioMetadata ==
  [trackNumber |-> 0, trackTotal |-> 0, discNumber |-> 0, discTotal |-> 0,
   coverArt |-> << >>, coverArtMimeType |-> ""]

\* ------------------------- FFmpegDecoder::getMetadata, getFileMetadata: cover art
MimeType(codec_id) ==
  IF codec_id = "MJPEG" \/ codec_id = "JPEG2000" THEN "image/jpeg"
  ELSE IF codec_id = "PNG" THEN "image/png"
  ELSE IF codec_id = "BMP" THEN "image/bmp"
  ELSE "image/jpeg"

\* the loop over the streams, from stream number i (counted from 1): the
\* first attached picture ends it
RECURSIVE CoverArt(_, _, _)
CoverArt(meta, streams, i) ==
  IF i > Len(streams) THEN meta
  ELSE IF streams[i].attached
    THEN [meta EXCEPT !.coverArt = streams[i].data,
                      !.coverArtMimeType = MimeType(streams[i].codec_id)]
  ELSE CoverArt(meta, streams, i + 1)

\* tags, then cover art, of the container m
Extract(m) ==
  CoverArt([AudioMetadata EXCEPT
              !.trackNumber = parseTrackNumber(m.track).number,
              !.trackTotal = parseTrackNumber(m.track).total,
              !.discNumber = parseTrackNumber(m.disc).number,
              !.discTotal = parseTrackNumber(m.disc).total],
           m.streams, 1)

\* ------------------------------------------------- FFmpegDecoder::getMetadata
getMetadata ==
  IF ~formatCtx \/ audioStreamIndex < 0 THEN AudioMetadata ELSE Extract(media)

\* --------------------------------------------- FFmpegDecoder::getFileMetadata
\* fail: the point at which the throwaway open fails ("none": it does not)
getFileMetadata(fail) ==
  IF fail # "none" THEN AudioMetadata ELSE Extract(media)

\* ---------------------------------------------------------------- MetadataToJS
\* the object handed to the JavaScript caller; "null": env.Null()
MetadataToJS(meta) ==
  [trackNumber |-> meta.trackNumber, trackTotal |-> meta.trackTotal,
   discNumber |-> meta.discNumber, discTotal |-> meta.discTotal,
   coverArt |-> IF meta.coverArt # << >> THEN meta.coverArt ELSE "null",
   coverArtMimeType |-> IF meta.coverArt # << >> THEN meta.coverArtMimeType
                        ELSE ""]

\* ------------------------------------------------ FFmpegDecoder::FFmpegDecoder
Fresh ==
  /\ formatCtx = FALSE /\ codecCtx = FALSE /\ swrCtx = FALSE
  /\ sampleBuffer = FALSE
  /\ audioStreamIndex = 0 - 1
  /\ sampleBufferSize = 0 /\ samplesInBuffer = 0 /\ bufferReadPos = 0
  /\ eofSignaled = FALSE /\ decoderDrained = FALSE /\ resamplerDrained = FALSE
  /\ outputSampleRate = DEFAULT_OUTPUT_SAMPLE_RATE
  /\ threadCount = 0
  /\ sampleBufferData = << >>
  /\ pos = 0 /\ decReady = << >> /\ decHeld = << >> /\ decDraining = FALSE
  /\ swrBuf = << >> /\ swrInit = FALSE
  /\ leaked = {}
  /\ crashed = FALSE
  /\ reopens = 0
  /\ last = Result("new", 0, TRUE, 0, << >>, FALSE, FALSE, << >>)
  /\ stream = Epoch("new", 0, TRUE)

Init == Fresh /\ media = DefaultMedia /\ swrDelay = SwrDelay

\* ----------------------------------------------------------- FFmpegDecoder::close
Close ==
  /\ Alive
  /\ sampleBuffer' = FALSE /\ sampleBufferData' = << >>
  /\ swrCtx' = FALSE /\ swrInit' = FALSE /\ swrBuf' = << >>
  /\ codecCtx' = FALSE /\ decReady' = << >> /\ decHeld' = << >>
  /\ decDraining' = FALSE
  /\ formatCtx' = FALSE /\ pos' = 0
  /\ audioStreamIndex' = 0 - 1
  /\ samplesInBuffer' = 0 /\ bufferReadPos' = 0
  /\ eofSignaled' = FALSE /\ decoderDrained' = FALSE
  /\ resamplerDrained' = FALSE
  /\ last' = Result("close", 0, TRUE, 0, << >>, FALSE, FALSE, << >>)
  /\ stream' = Epoch("close", 0, TRUE)
  /\ UNCHANGED << sampleBufferSize, outputSampleRate, threadCount, leaked,
                  crashed, reopens, media,
               swrDelay >>

\* ------------------------------------------------------------ FFmpegDecoder::open
\* The points at which open can fail, in the order of the code; "none": it
\* succeeds.
Stages == << "open_input", "stream_info", "no_audio", "no_codec", "alloc_ctx",
             "params", "open2", "swr_alloc", "swr_init", "none" >>
StageNo(f) == CHOOSE i \in 1..Len(Stages) : Stages[i] = f

\* open(filePath, outSampleRate, threads) failing at stage fail.  rewind: when
\* avformat_open_input is handed the still-open container of the previous
\* session, whether the container ends up at its start or where it was.
Open(outSampleRate, threads, fail, rewind) ==
  LET k == StageNo(fail)
      success == fail = "none"
      viaClose == fail \in {"swr_alloc", "swr_init"}
      newCodec == k >= StageNo("alloc_ctx")
      newSwr == k >= StageNo("swr_alloc")
      holding == formatCtx \/ codecCtx \/ swrCtx \/ sampleBuffer
  IN
  /\ Alive
  /\ holding => reopens < MaxReopen
  /\ rewind \/ (formatCtx /\ success)
  /\ reopens' = IF holding THEN reopens + 1 ELSE reopens
  /\ outputSampleRate' = IF outSampleRate > 0 THEN outSampleRate
                         ELSE DEFAULT_OUTPUT_SAMPLE_RATE
  /\ threadCount' = threads
  \* every failure path ends with the container closed (or never opened)
  /\ formatCtx' = success
  /\ pos' = IF success /\ formatCtx /\ ~rewind THEN pos ELSE 0
  /\ audioStreamIndex' = IF k <= StageNo("stream_info") THEN audioStreamIndex
                         ELSE IF fail = "no_audio" \/ viaClose THEN 0 - 1
                         ELSE 0
  \* codecCtx = avcodec_alloc_context3(codec) overwrites the pointer
  /\ codecCtx' = IF newCodec THEN success ELSE codecCtx
  /\ decReady' = IF newCodec THEN << >> ELSE decReady
  /\ decHeld' = IF newCodec THEN << >> ELSE decHeld
  /\ decDraining' = IF newCodec THEN FALSE ELSE decDraining
  \* swr_alloc_set_opts2 reuses a context that is already there
  /\ swrCtx' = IF newSwr THEN success ELSE swrCtx
  /\ swrInit' = IF newSwr THEN success ELSE swrInit
  /\ swrBuf' = IF newSwr THEN << >> ELSE swrBuf
  \* sampleBuffer = new float[sampleBufferSize] overwrites the pointer
  /\ sampleBuffer' = IF success THEN TRUE ELSE IF viaClose THEN FALSE
                     ELSE sampleBuffer
  /\ sampleBufferData' = IF success \/ viaClose THEN << >> ELSE sampleBufferData
  /\ sampleBufferSize' = IF success THEN outputSampleRate' * OUTPUT_CHANNELS
                         ELSE sampleBufferSize
  /\ samplesInBuffer' = IF viaClose THEN 0 ELSE samplesInBuffer
  /\ bufferReadPos' = IF viaClose THEN 0 ELSE bufferReadPos
  /\ eofSignaled' = IF success \/ viaClose THEN FALSE ELSE eofSignaled
  /\ decoderDrained' = IF success \/ viaClose THEN FALSE ELSE decoderDrained
  /\ resamplerDrained' = IF success \/ viaClose THEN FALSE ELSE resamplerDrained
  /\ leaked' = leaked
               \cup (IF newCodec /\ codecCtx THEN {"codecCtx"} ELSE {})
               \cup (IF success /\ sampleBuffer THEN {"sampleBuffer"} ELSE {})
  /\ last' = Result("open", outSampleRate, success, 0, << >>, FALSE, FALSE,
                    << >>)
  /\ stream' = IF success \/ viaClose
                 THEN Epoch("open", pos', success /\ samplesInBuffer' = 0)
               ELSE stream
  /\ UNCHANGED << crashed, media,
               swrDelay >>

\* ------------------------------------------------------------ FFmpegDecoder::seek
\* the packet a backward keyframe seek to `seconds` lands on: packet k
\* (counted from 0) starts at second k, and the seek goes back to the last
\* keyframe at or before the target, or to the first packet
RECURSIVE SeekPos(_)
SeekPos(seconds) ==
  IF seconds <= 0 THEN 0
  ELSE IF seconds < NPackets /\ Packets[seconds + 1].key THEN seconds
  ELSE SeekPos(seconds - 1)

\* what a call of seek leaves alone whatever it returns
SeekKeeps ==
  UNCHANGED << formatCtx, codecCtx, swrCtx, sampleBuffer, audioStreamIndex,
               sampleBufferSize, outputSampleRate, threadCount,
               sampleBufferData, leaked, crashed, reopens, media,
               swrDelay >>

\* (a seek that clears the staging buffer and the drain flags before it knows
\* whether the source accepted the seek)
SeekFalseResets ==
  /\ last' = Result("seek", 0, FALSE, 0, << >>, FALSE, FALSE, << >>)
  /\ samplesInBuffer' = 0 /\ bufferReadPos' = 0
  /\ eofSignaled' = FALSE /\ decoderDrained' = FALSE
  /\ resamplerDrained' = FALSE
  /\ SeekKeeps
  /\ UNCHANGED << pos, decReady, decHeld, decDraining, swrBuf, swrInit,
                  stream >>

\* return false: the session is closed, or av_seek_frame failed
SeekFalse ==
  /\ last' = Result("seek", 0, FALSE, 0, << >>, FALSE, FALSE, << >>)
  /\ SeekKeeps
  /\ UNCHANGED << samplesInBuffer, bufferReadPos, eofSignaled, decoderDrained,
                  resamplerDrained, pos, decReady, decHeld, decDraining,
                  swrBuf, swrInit, stream >>

\* (a seek that does not call avcodec_flush_buffers)
SeekTrueKeepsCodec(seconds, reinit) ==
  /\ pos' = SeekPos(seconds)
  /\ UNCHANGED << decReady, decHeld, decDraining >>
  /\ swrBuf' = IF swrCtx THEN << >> ELSE swrBuf
  /\ swrInit' = IF swrCtx THEN reinit ELSE swrInit
  /\ samplesInBuffer' = 0 /\ bufferReadPos' = 0
  /\ eofSignaled' = FALSE /\ decoderDrained' = FALSE
  /\ resamplerDrained' = FALSE
  /\ last' = Result("seek", 0, TRUE, samplesInBuffer - bufferReadPos,
                    << >>, FALSE, FALSE, << >>)
  /\ stream' = Epoch("seek", pos', swrInit')
  /\ SeekKeeps

\* (a seek that does not close and re-initialise the resampler)
SeekTrueKeepsResampler(seconds, reinit) ==
  /\ pos' = SeekPos(seconds)
  /\ decReady' = << >> /\ decHeld' = << >> /\ decDraining' = FALSE
  /\ UNCHANGED << swrBuf, swrInit >>
  /\ samplesInBuffer' = 0 /\ bufferReadPos' = 0
  /\ eofSignaled' = FALSE /\ decoderDrained' = FALSE
  /\ resamplerDrained' = FALSE
  /\ last' = Result("seek", 0, TRUE, samplesInBuffer - bufferReadPos,
                    << >>, FALSE, FALSE, << >>)
  /\ stream' = Epoch("seek", pos', swrInit')
  /\ SeekKeeps

\* (a seek that leaves the staging buffer as it is)
SeekTrueKeepsStaging(seconds, reinit) ==
  /\ pos' = SeekPos(seconds)
  /\ decReady' = << >> /\ decHeld' = << >> /\ decDraining' = FALSE
  /\ swrBuf' = IF swrCtx THEN << >> ELSE swrBuf
  /\ swrInit' = IF swrCtx THEN reinit ELSE swrInit
  /\ UNCHANGED << samplesInBuffer, bufferReadPos >>
  /\ eofSignaled' = FALSE /\ decoderDrained' = FALSE
  /\ resamplerDrained' = FALSE
  /\ last' = Result("seek", 0, TRUE, 0, << >>, FALSE, FALSE, << >>)
  /\ stream' = Epoch("seek", pos', swrInit')
  /\ SeekKeeps

\* the source accepted the seek; reinit: swr_init succeeds
SeekTrue(seconds, reinit) ==
  /\ pos' = SeekPos(seconds)
  \* avcodec_flush_buffers
  /\ decReady' = << >> /\ decHeld' = << >> /\ decDraining' = FALSE
  \* swr_close, swr_init
  /\ swrBuf' = IF swrCtx THEN << >> ELSE swrBuf
  /\ swrInit' = IF swrCtx THEN reinit ELSE swrInit
  /\ samplesInBuffer' = 0 /\ bufferReadPos' = 0
  /\ eofSignaled' = FALSE /\ decoderDrained' = FALSE
  /\ resamplerDrained' = FALSE
  /\ last' = Result("seek", 0, TRUE, samplesInBuffer - bufferReadPos,
                    << >>, FALSE, FALSE, << >>)
  /\ stream' = Epoch("seek", pos', swrInit')
  /\ SeekKeeps

\* seek(seconds); accepted: av_seek_frame succeeds
Seek(seconds, accepted, reinit) ==
  /\ Alive
  /\ reinit \/ (formatCtx /\ accepted /\ swrCtx)
  /\ IF ~formatCtx \/ ~accepted THEN SeekFalse ELSE SeekTrue(seconds, reinit)

\* ------------------------------------------------------------ FFmpegDecoder::read
\* the state read leaves and what it returns (r: the result of its loop)
ReadReturns(numSamples, r, dies) ==
  /\ samplesInBuffer' = r.st.samplesInBuffer
  /\ bufferReadPos' = r.st.bufferReadPos
  /\ eofSignaled' = r.st.eofSignaled
  /\ decoderDrained' = r.st.decoderDrained
  /\ resamplerDrained' = r.st.resamplerDrained
  /\ sampleBufferData' = r.st.data
  /\ pos' = r.st.pos
  /\ decReady' = r.st.decReady
  /\ decHeld' = r.st.decHeld
  /\ decDraining' = r.st.decDraining
  /\ swrBuf' = r.st.swrBuf
  /\ crashed' = (r.oob /\ dies)
  /\ dies => r.oob
  /\ last' = Result("read", numSamples, TRUE, r.ret, r.dst, r.err, r.hang,
                    r.st.log)
  /\ stream' = [stream EXCEPT
                  !.out = @ \o r.dst,
                  !.emitted = @ \o r.st.emitted,
                  !.flushes = @ + Cardinality({i \in DOMAIN r.st.log :
                                                r.st.log[i].ev = "send_flush"}),
                  !.failed = @ \/ r.err,
                  !.clean = @ /\ ~r.err /\ ~r.oob
                              /\ \A i \in 1..Len(r.dst) : r.dst[i] # Garbage]

\* read(outBuffer, numSamples); hasOut: outBuffer is not null; fault: the
\* backend call of this read that fails (0: none); dies: whether a copy from
\* outside the staging buffer kills the process
Read(numSamples, hasOut, fault, dies) ==
  /\ Alive
  /\ IF ~formatCtx \/ ~hasOut
       THEN /\ fault = 0 /\ ~dies
            /\ last' = Result("read", numSamples, FALSE, 0, << >>, FALSE, FALSE,
                              << >>)
            /\ UNCHANGED << samplesInBuffer, bufferReadPos, eofSignaled,
                            decoderDrained, resamplerDrained, sampleBufferData,
                            pos, decReady, decHeld, decDraining, swrBuf,
                            crashed, stream >>
       ELSE \E r \in {readLoop(Pipeline,
                                [audioStreamIndex |-> audioStreamIndex,
                                 size |-> sampleBufferSize,
                                 init |-> swrCtx /\ swrInit],
                                numSamples, 0, << >>, FALSE, fault)} :
              ReadReturns(numSamples, r, dies)
  /\ UNCHANGED << formatCtx, codecCtx, swrCtx, sampleBuffer, audioStreamIndex,
                  sampleBufferSize, outputSampleRate, threadCount, swrInit,
                  leaked, reopens, media,
               swrDelay >>

\* ------------------------------------------------------- FFmpegDecoder::hasError
hasError == FALSE

\* ------------------------------------------------------ FFmpegDecoder::isOpen
isOpen == formatCtx

\* ------------------------------- FFmpegDecoder::getSampleRate, getChannels
getSampleRate == OUTPUT_SAMPLE_RATE
getChannels == OUTPUT_CHANNELS

\* ----------------------------------------------------- DecoderWrapper::Read
\* the object handed to the JavaScript caller
ReadResult == [buffer |-> last.copied, samplesRead |-> last.ret]

\* ------------------------------------------------ DecoderWrapper::GetMetadata
\* what the metadata calls leave alone: everything but the record of the call
MetadataKeeps ==
  UNCHANGED << formatCtx, codecCtx, swrCtx, sampleBuffer, audioStreamIndex,
               sampleBufferSize, samplesInBuffer, bufferReadPos, eofSignaled,
               decoderDrained, resamplerDrained, outputSampleRate, threadCount,
               sampleBufferData, decReady, decHeld, decDraining, swrBuf,
               swrInit, leaked, crashed, reopens, stream, media,
               swrDelay >>

\* (an extraction that reads a packet from the session's container to get at
\* the picture)
GetMetadataReadsPacket ==
  /\ Alive
  /\ last' = Result("getMetadata", 0, isOpen, 0, << >>, FALSE, FALSE, << >>)
             @@ [meta |-> getMetadata,
                 js |-> IF isOpen THEN MetadataToJS(getMetadata) ELSE "null"]
  /\ pos' = IF isOpen THEN Min(pos + 1, NPackets) ELSE pos
  /\ MetadataKeeps

\* throws when the decoder is not open (ok: it is), else hands out the record
\* getMetadata returns (meta), converted (js)
GetMetadata ==
  /\ Alive
  /\ last' = Result("getMetadata", 0, isOpen, 0, << >>, FALSE, FALSE, << >>)
             @@ [meta |-> getMetadata,
                 js |-> IF isOpen THEN MetadataToJS(getMetadata) ELSE "null"]
  /\ UNCHANGED pos
  /\ MetadataKeeps

\* -------------------------------------------- DecoderWrapper::GetFileMetadata
\* ok: the throwaway open got as far as the tags
GetFileMetadata(fail) ==
  /\ Alive
  /\ last' = Result("getFileMetadata", 0, fail = "none", 0, << >>, FALSE,
                    FALSE, << >>)
             @@ [meta |-> getFileMetadata(fail),
                 js |-> MetadataToJS(getFileMetadata(fail))]
  /\ UNCHANGED pos
  /\ MetadataKeeps

\* ------------------------------------------------------------------- the caller
Rates == {0, SmallRate}
Threads == {0}
SeekTimes == 0..(NPackets - 1)
ReadSizes == (0 - 1)..MaxRead
Faults == 0..MaxFault

DoOpen == \E r \in Rates, t \in Threads, f \in { Stages[i] : i \in 1..Len(Stages) },
             rw \in BOOLEAN : Open(r, t, f, rw)
DoSeek == \E t \in SeekTimes, a \in BOOLEAN, ri \in BOOLEAN : Seek(t, a, ri)
DoRead == \E n \in ReadSizes, h \in BOOLEAN, f \in Faults, d \in BOOLEAN :
             Read(n, h, f, d)

Next == DoOpen \/ Close \/ DoSeek \/ DoRead

Spec == Init /\ [][Next]_vars

\* ------------------------------------- the caller that also asks for metadata
DoGetFileMetadata ==
  \E f \in {"open_input", "stream_info", "no_audio", "none"} : GetFileMetadata(f)

\* reads during which no backend call fails (Spec has the others; a metadata
\* call does not look at what they leave behind)
DoReadHealthy == \E n \in ReadSizes, h \in BOOLEAN, d \in BOOLEAN :
                    Read(n, h, 0, d)

NextQuery == DoOpen \/ Close \/ DoSeek \/ DoReadHealthy \/ GetMetadata
               \/ DoGetFileMetadata

SpecQuery == Init /\ [][NextQuery]_vars

\* ------------------------------------------------- the metadata of any file
\* Tag texts and stream lists are drawn at the start; the caller opens the
\* file with the defaults, closes it and asks for its metadata either way.
TagChars == {"0", "3", "7", "/", "a", "-", " "}
TagTexts == UNION { [1..n -> TagChars] : n \in 0..MaxTagLen }
PictureCodecs == {"MJPEG", "JPEG2000", "PNG", "BMP", "GIF"}
Payloads == {<< >>, << 1 >>, << 2 >>}
ExtraStreams ==
  {VideoStream} \cup {Picture(c, d) : c \in PictureCodecs, d \in Payloads}
StreamLists == UNION { [1..n -> ExtraStreams] : n \in 0..MaxExtraStreams }

Medias ==
  {Media(t, << "3" >>, << >>) : t \in TagTexts}
    \cup {Media(<< "7" >>, << "3", "/", "7" >>, x) : x \in StreamLists}

InitMeta == Fresh /\ media \in Medias /\ swrDelay = SwrDelay

OpenDefault == Open(0, 0, "none", TRUE)

NextMeta == OpenDefault \/ Close \/ GetMetadata \/ DoGetFileMetadata

SpecMeta == InitMeta /\ [][NextMeta]_vars

\* ------------------------------------------- the caller that reads to the end
\* The session is opened once, on a source no backend call fails on, and is
\* neither sought nor closed.  The caller keeps calling read with a buffer and
\* a positive count (each call returns: the loops of read and decodeNextFrame
\* end), and may in between call read with no buffer or a count that is not
\* positive, and ask for the metadata.  The delay of the resampler is that of
\* the other specifications or longer, up to the length of the whole source.
InitLive ==
  Fresh /\ media = DefaultMedia /\ swrDelay \in SwrDelay..MaxSwrDelay

LiveOpen == ~formatCtx /\ \E r \in Rates : Open(r, 0, "none", TRUE)
ReadPositive ==
  formatCtx /\ \E n \in 1..MaxRead : Read(n, TRUE, 0, FALSE)
ReadNothing ==
  /\ formatCtx
  /\ \E n \in ReadSizes, h \in BOOLEAN :
        (n <= 0 \/ ~h) /\ Read(n, h, 0, FALSE)

NextLive == LiveOpen \/ ReadPositive \/ ReadNothing \/ GetMetadata

SpecLive ==
  InitLive /\ [][NextLive]_vars /\ WF_vars(LiveOpen) /\ WF_vars(ReadPositive)

\* ===================================================================== claims
Terminal == eofSignaled /\ decoderDrained /\ resamplerDrained

\* the last call was a read that got past its first line
Streamed == last.op = "read" /\ last.ok
\* ... and returned fewer samples than the positive number asked for
ShortRead == Streamed /\ last.asked /\ last.short

IsPrefix(p, q) == Len(p) <= Len(q) /\ SubSeq(q, 1, Len(p)) = p

\* the floats of the selected stream from packet number `from` (counted from
\* 0) to the end of the source
RECURSIVE Expected(_)
Expected(from) ==
  IF from >= NPackets THEN << >>
  ELSE (IF Packets[from + 1].stream = 0
          THEN Interleave(Flatten(Packets[from + 1].frames)) ELSE << >>)
       \o Expected(from + 1)

\* C1: on an open session with a healthy backend, a read that returns fewer
\* samples than the positive number requested leaves the stream exhausted:
\* eofSignaled, decoderDrained and resamplerDrained are all true.
C1_ShortReadMeansExhausted ==
  (ShortRead /\ ~crashed /\ stream.clean) => Terminal

\* C2: every read returns a count r with 0 <= r, r <= n when n >= 0 and
\* r = 0 when n <= 0, and copies exactly r samples to the destination.
C2_ReadCountWithinRequest ==
  (last.op = "read" /\ ~crashed) =>
     /\ 0 <= last.ret
     /\ last.asked => ~last.over
     /\ ~last.asked => last.ret = 0
     /\ last.copied = last.ret

\* a read on an open session partly served from the staging buffer
C2_Witness ==
  Streamed /\ last.asked /\ ~last.short /\ ~last.over
           /\ bufferReadPos > 0 /\ bufferReadPos < samplesInBuffer

\* C3: the resampler is flushed (converted with no input) only while
\* decoderDrained is true, the source is exhausted and the decoder holds no
\* frame; a frame is converted only while decoderDrained is false; and once
\* decoderDrained is true the decoder holds no frame.  So after the source is
\* exhausted the decoder's remaining frames come first, then the flushed tail.
C3_DrainOrder ==
  /\ last.op = "read" =>
       \A i \in DOMAIN last.log :
          /\ last.log[i].ev \in {"swr_flush", "swr_flush_err"} =>
               last.log[i].dd /\ last.log[i].eof /\ last.log[i].pending = 0
          /\ last.log[i].ev \in {"swr_convert", "swr_convert_err"} =>
               ~last.log[i].dd
  /\ decoderDrained => decReady = << >> /\ decHeld = << >>

\* a read that returned the flushed tail after earlier reads returned frames
C3_Witness ==
  /\ Streamed /\ last.ret > 0 /\ Len(stream.out) > last.ret
  /\ \E i \in DOMAIN last.log : last.log[i].ev = "swr_flush"

\* C4: whenever open returns false, the session holds no resource and isOpen()
\* is false.
C4_FailedOpenHoldsNothing ==
  (last.op = "open" /\ ~last.ok) =>
     ~isOpen /\ ~formatCtx /\ ~codecCtx /\ ~swrCtx /\ ~sampleBuffer

\* C5: a seek that returns false leaves the staging buffer's fill length and
\* cursor, the three drain flags and the data buffered in the decoder and in
\* the resampler as they were.
C5_FailedSeekChangesNothing ==
  [][ (last'.op = "seek" /\ ~last'.ok) =>
        UNCHANGED << samplesInBuffer, bufferReadPos, eofSignaled,
                     decoderDrained, resamplerDrained, decReady, decHeld,
                     decDraining, swrBuf, swrInit, sampleBufferData >> ]_vars

\* a seek rejected mid-stream, with samples staged and buffered
C5_Witness ==
  /\ last.op = "seek" /\ ~last.ok /\ formatCtx
  /\ bufferReadPos < samplesInBuffer /\ swrBuf # << >> /\ eofSignaled

\* C6: after every seek that returns true the staging buffer has fill length 0
\* and cursor 0, the three drain flags are false, and the decoder and the
\* resampler hold no buffered data.
C6_SeekResets ==
  (last.op = "seek" /\ last.ok) =>
     /\ samplesInBuffer = 0 /\ bufferReadPos = 0
     /\ ~eofSignaled /\ ~decoderDrained /\ ~resamplerDrained
     /\ decReady = << >> /\ decHeld = << >> /\ ~decDraining
     /\ swrBuf = << >>

\* a successful seek that discarded staged samples
C6_Witness == last.op = "seek" /\ last.ok /\ last.ret > 0

\* C7: after a successful seek, with a backend that does not fail, the samples
\* read are a prefix of the selected stream's samples from the packet the seek
\* landed on, and all of them once the stream is exhausted: a function of the
\* seek target alone, whatever was read or sought before.
C7_SeekHistoryIndependent ==
  (stream.kind = "seek" /\ stream.clean) =>
     /\ IsPrefix(stream.out, Expected(stream.from))
     /\ Terminal => stream.out = Expected(stream.from)

\* read to exhaustion after a seek to the second keyframe
C7_Witness ==
  /\ stream.kind = "seek" /\ stream.clean /\ stream.from > 0
  /\ Terminal /\ stream.out # << >> /\ Streamed

\* C8: once a read has stopped on a DecodeError or ReadError, every later read
\* before the next seek, open or close returns fewer samples than requested.
C8_ErrorsAreSticky ==
  (Streamed /\ ~crashed /\ stream.failed /\ last.asked) => last.short

\* C9: after a short read the session exposes an error status exactly when the
\* read was cut short by a DecodeError or ReadError.
C9_ErrorIsDistinguishable ==
  (ShortRead /\ ~crashed) =>
     ((hasError \/ "error" \in DOMAIN ReadResult) <=> last.err)

\* C10: close leaves the session closed with every resource acquired by open
\* released, fill length and cursor 0 and the drain flags false, and a second
\* close changes nothing.
C10_CloseReleasesEverything ==
  last.op = "close" =>
     /\ ~formatCtx /\ ~codecCtx /\ ~swrCtx /\ ~sampleBuffer
     /\ leaked = {}
     /\ samplesInBuffer = 0 /\ bufferReadPos = 0
     /\ ~eofSignaled /\ ~decoderDrained /\ ~resamplerDrained
     /\ ENABLED (Close /\ UNCHANGED vars)

\* C11: after every open that returns true, also on a session that is already
\* open, the staging buffer is empty (fill length 0, cursor 0, fill length
\* within the new capacity), the three drain flags are false, and no resource
\* of the previous session is still held or leaked.
C11_OpenReinitializes ==
  (last.op = "open" /\ last.ok) =>
     /\ samplesInBuffer = 0 /\ bufferReadPos = 0
     /\ samplesInBuffer <= sampleBufferSize
     /\ ~eofSignaled /\ ~decoderDrained /\ ~resamplerDrained
     /\ leaked = {}

\* C12: in the terminal state (eofSignaled, decoderDrained and
\* resamplerDrained all true) every read returns 0 and leaves the flags and
\* the staging buffer as they were; only a seek, a close or an open leave the
\* terminal state.
C12_EndOfStreamSticky ==
  [][ (Terminal /\ last'.op = "read") =>
        /\ last'.ret = 0 /\ last'.copied = 0
        /\ UNCHANGED << eofSignaled, decoderDrained, resamplerDrained,
                        samplesInBuffer, bufferReadPos, sampleBufferData,
                        sampleBufferSize >> ]_vars

\* a read for a positive count made in the terminal state: its first backend
\* call already finds decoderDrained set and it does not flush the resampler
C12_Witness ==
  /\ Terminal /\ Streamed /\ last.asked /\ last.ret = 0
  /\ last.log # << >> /\ last.log[1].dd
  /\ \A i \in DOMAIN last.log : last.log[i].ev # "swr_flush"

\* C16: after open(path, r, threads) succeeds getSampleRate() returns r when
\* r > 0 and 44100 when r <= 0; getChannels() returns 2; and while the session
\* is open the capacity of the staging buffer is getSampleRate() *
\* getChannels().
C16_RateConfigurable ==
  [][ /\ \A r \in Rates, t \in Threads, rw \in BOOLEAN :
           Open(r, t, "none", rw) =>
             getSampleRate = (IF r > 0 THEN r ELSE 44100)
      /\ getChannels = 2
      /\ isOpen' => sampleBufferSize' = getSampleRate * getChannels ]_vars

\* C17: resamplerDrained is true only if decoderDrained is true, and
\* eofSignaled becomes true only in a read in which av_read_frame reported the
\* end of the source.
C17_DrainFlagsJustified ==
  [][ /\ resamplerDrained => decoderDrained
      /\ resamplerDrained' => decoderDrained'
      /\ (~eofSignaled /\ eofSignaled') =>
            /\ last'.op = "read"
            /\ \E i \in DOMAIN last'.log : last'.log[i].ev = "read_eof" ]_vars

\* a read that met the end of the source and drained decoder and resampler
C17_Witness ==
  /\ Streamed /\ Terminal
  /\ \E i \in DOMAIN last.log : last.log[i].ev = "read_eof"

\* a call that resets the drain flags: open, close, or a seek that returns true
IsReset(l) == l.op \in {"open", "close"} \/ (l.op = "seek" /\ l.ok)

\* C18: the drain flags only take the combinations (F,F,F), (T,F,F), (T,T,F)
\* and (T,T,T), that is decoderDrained implies eofSignaled and
\* resamplerDrained implies decoderDrained; and apart from the resets (open,
\* successful seek, close) no call clears a flag that is set.
C18_DrainStateMachine ==
  [][ /\ decoderDrained => eofSignaled
      /\ decoderDrained' => eofSignaled'
      /\ resamplerDrained' => decoderDrained'
      /\ ~IsReset(last') =>
            /\ eofSignaled => eofSignaled'
            /\ decoderDrained => decoderDrained'
            /\ resamplerDrained => resamplerDrained' ]_vars

\* a read that left the flags at (T,F,F), after a read that had left them at
\* (F,F,F): the end of the source was signalled, the decoder still has frames
C18_Witness ==
  /\ Streamed /\ eofSignaled /\ ~decoderDrained /\ ~resamplerDrained
  /\ last.log # << >> /\ ~last.log[1].eof

\* capacity of the currently allocated staging buffer
Capacity == IF sampleBuffer THEN sampleBufferSize ELSE 0

\* C19: in every reachable state 0 <= bufferReadPos <= samplesInBuffer <=
\* capacity of the allocated staging buffer, and no read copied from outside
\* the buffer.
C19_StagingWithinCapacity ==
  /\ 0 <= bufferReadPos /\ bufferReadPos <= samplesInBuffer
  /\ samplesInBuffer <= Capacity
  /\ ~crashed

\* C20: with a finite source and a decoder that ends after the flush packet,
\* every call of decodeNextFrame returns (a chunk, the end of the stream or an
\* error) after finitely many loop iterations: no read is left waiting for
\* it, also when the source holds packets of other streams.  (An iteration
\* makes at most 3 backend calls, a call of decodeNextFrame goes round at most
\* NPackets + 2 times, a read calls it at most MaxRead + 1 times.)
C20_DecodeTerminates ==
  last.op = "read" =>
     /\ ~last.hang
     /\ Len(last.log) <= 3 * (NPackets + 2) * (MaxRead + 1)

\* a read in which the loop went round several times (packets read, among
\* them one of another stream) before decodeNextFrame returned
C20_Witness ==
  /\ Streamed /\ ~last.hang
  /\ \E i \in DOMAIN last.log : last.log[i].ev = "skip"
  /\ Cardinality({i \in DOMAIN last.log : last.log[i].ev = "read_pkt"}) >= 2

\* a metadata call: getMetadata through the binding, or getFileMetadata
Queried == last.op \in {"getMetadata", "getFileMetadata"}

\* C13: getMetadata and getFileMetadata leave the fill length and cursor of
\* the staging buffer, the three drain flags, the selected stream index and
\* the positions of decoder, resampler and packet source as they were, and
\* with them everything a later read works on (the staged samples, the
\* capacity, the handles), so that later reads return the same samples.
C13_MetadataKeepsStreamingState ==
  [][ Queried' =>
        UNCHANGED << samplesInBuffer, bufferReadPos, eofSignaled,
                     decoderDrained, resamplerDrained, audioStreamIndex, pos,
                     decReady, decHeld, decDraining, swrBuf, swrInit,
                     sampleBufferData, sampleBufferSize, formatCtx, codecCtx,
                     swrCtx, sampleBuffer, crashed, stream >> ]_vars

\* metadata taken from a live session in mid-stream: samples staged and not
\* yet read, samples held in the resampler, packets left in the source
C13_Witness ==
  /\ last.op = "getMetadata" /\ last.ok
  /\ bufferReadPos < samplesInBuffer /\ swrBuf # << >> /\ pos > 0
  /\ last.meta.coverArt # << >>

\* the number of characters of text from index `from` on that are all in the
\* set chars
RunLength(text, from, chars) ==
  CHOOSE k \in 0..(Len(text) - from + 1) :
    /\ \A i \in from..(from + k - 1) : text[i] \in chars
    /\ from + k > Len(text) \/ text[from + k] \notin chars

RECURSIVE Power10(_)
Power10(n) == IF n = 0 THEN 1 ELSE 10 * Power10(n - 1)

\* the decimal value of the d digits of text that start at index `from`
RECURSIVE DecimalValue(_, _, _)
DecimalValue(text, from, d) ==
  IF d = 0 THEN 0
  ELSE DigitVal(text[from]) * Power10(d - 1) + DecimalValue(text, from + 1, d - 1)

\* the leading integer of a text, as C reads integers: white space, an
\* optional sign, then the longest run of digits; 0 when that run is empty
LeadingInteger(text) ==
  LET digits == {DigitChars[i] : i \in DOMAIN DigitChars}
      sp == RunLength(text, 1, {" ", "\t", "\n", "\r"})
      sg == RunLength(text, sp + 1, {"-", "+"})
      at == sp + 1 + (IF sg > 0 THEN 1 ELSE 0)
      v == DecimalValue(text, at, RunLength(text, at, digits))
  IN IF sg > 0 /\ text[sp + 1] = "-" THEN 0 - v ELSE v

\* number and total of a tag text as the claim states them
TrackOf(text) ==
  LET slashes == {i \in DOMAIN text : text[i] = "/"}
      first == CHOOSE i \in slashes : \A j \in slashes : i <= j
  IN IF slashes = {}
       THEN [number |-> LeadingInteger(text), total |-> 0]
     ELSE [number |-> LeadingInteger(SubSeq(text, 1, first - 1)),
           total |-> LeadingInteger(SubSeq(text, first + 1, Len(text)))]

\* C14: for every tag text s, with a '/' the number is the leading integer of
\* the text before the first '/' and the total the leading integer of the text
\* after it; without one the number is the leading integer of s and the total
\* is 0; text without a leading integer, the empty text included, gives 0.
\* "3/12" gives (3,12), "7" gives (7,0), "" and "abc" give (0,0).  The
\* metadata record carries these values for the track and the disc tag.
C14_TrackParsing ==
  /\ parseTrackNumber(media.track) = TrackOf(media.track)
  /\ parseTrackNumber(media.disc) = TrackOf(media.disc)
  /\ (Queried /\ last.ok) =>
        /\ last.meta.trackNumber = TrackOf(media.track).number
        /\ last.meta.trackTotal = TrackOf(media.track).total
        /\ last.meta.discNumber = TrackOf(media.disc).number
        /\ last.meta.discTotal = TrackOf(media.disc).total
  /\ parseTrackNumber(<< "3", "/", "1", "2" >>) = [number |-> 3, total |-> 12]
  /\ parseTrackNumber(<< "7" >>) = [number |-> 7, total |-> 0]
  /\ parseTrackNumber(<< >>) = [number |-> 0, total |-> 0]
  /\ parseTrackNumber(<< "a", "b", "c" >>) = [number |-> 0, total |-> 0]

\* metadata of a file whose track tag has a number, a '/' and a total
C14_Witness ==
  /\ Queried /\ last.ok
  /\ \E i \in DOMAIN media.track : media.track[i] = "/"
  /\ last.meta.trackNumber > 0 /\ last.meta.trackTotal > 0

\* the MIME type the claim gives a codec
MimeOf(codec_id) ==
  CASE codec_id \in {"MJPEG", "JPEG2000"} -> "image/jpeg"
    [] codec_id = "PNG" -> "image/png"
    [] codec_id = "BMP" -> "image/bmp"
    [] OTHER -> "image/jpeg"

\* the streams flagged attached-picture
Flagged == {i \in DOMAIN media.streams : media.streams[i].attached}
FirstFlagged == CHOOSE i \in Flagged : \A j \in Flagged : i <= j

\* the cover art and MIME type the core computes are those of the first
\* flagged stream, or empty when no stream is flagged
CoreCoverArt ==
  (Queried /\ last.ok) =>
     IF Flagged = {}
       THEN last.meta.coverArt = << >> /\ last.meta.coverArtMimeType = ""
     ELSE /\ last.meta.coverArt = media.streams[FirstFlagged].data
          /\ last.meta.coverArtMimeType
               = MimeOf(media.streams[FirstFlagged].codec_id)

\* C15: the cover art is the payload of the first stream flagged
\* attached-picture, with MIME type image/jpeg for MJPEG and JPEG2000,
\* image/png for PNG, image/bmp for BMP and image/jpeg for any other codec;
\* later pictures are ignored; with no flagged stream the cover art is empty
\* and the MIME type is the empty string; and the record the binding hands to
\* the caller carries the MIME type the core computed.
C15_CoverArt ==
  /\ CoreCoverArt
  /\ (Queried /\ last.ok) =>
        last.js.coverArtMimeType = last.meta.coverArtMimeType

\* the events of a read's log
ReadEvents == {"read_pkt", "read_eof", "read_err"}
SendEvents == {"send", "send_err"}

\* C21: a packet is read from the source only right after the decoder
\* reported needs-more-input, with eofSignaled false and no frame ready in the
\* decoder; a packet is sent only right after it was read; so frames are
\* resampled in the order the decoder emits them, and the samples handed out
\* are those of packet k before those of packet k+1.
C21_PendingFramesFirst ==
  /\ last.op = "read" =>
       \A i \in DOMAIN last.log :
          /\ last.log[i].ev \in ReadEvents =>
               /\ i > 1 /\ last.log[i - 1].ev = "recv_eagain"
               /\ ~last.log[i].eof /\ last.log[i].ready = 0
          /\ last.log[i].ev \in SendEvents \cup {"skip"} =>
               i > 1 /\ last.log[i - 1].ev = "read_pkt"
          /\ last.log[i].ev = "send_flush" =>
               i > 1 /\ last.log[i - 1].ev = "read_eof"
  /\ (stream.kind \in {"open", "seek"} /\ stream.clean) =>
       IsPrefix(stream.out, Expected(stream.from))

\* a read in which sending a packet made a frame ready while the source was
\* not yet signalled exhausted, and the loop took that frame next
C21_Witness ==
  /\ Streamed
  /\ \E i \in DOMAIN last.log :
        /\ last.log[i].ev = "send" /\ last.log[i].ready > 0
        /\ ~last.log[i].eof
        /\ i < Len(last.log) /\ last.log[i + 1].ev = "recv_ok"

\* the staged floats not yet handed out
Unread ==
  [i \in 1..Max(samplesInBuffer - bufferReadPos, 0) |->
     BufferAt(sampleBufferData, bufferReadPos + i - 1)]
ConvertEvents ==
  {"swr_convert", "swr_flush", "swr_convert_err", "swr_flush_err"}

\* the resampler is asked for a chunk only when the staging buffer is
\* exhausted (cursor = fill length)
RefillOnlyWhenExhausted ==
  last.op = "read" =>
    \A i \in DOMAIN last.log :
       last.log[i].ev \in ConvertEvents => last.log[i].unread = 0

\* what the reads returned since the last reset is what the resampler emitted
\* since, less what is still staged
NoLossNoDuplication ==
  /\ IsPrefix(stream.out, stream.emitted)
  /\ stream.out # << >> => stream.emitted = stream.out \o Unread
  /\ bufferReadPos >= samplesInBuffer => stream.out = stream.emitted

\* C22: the staging buffer is refilled only when it is exhausted, and between
\* two resets (open, successful seek, close) the samples returned by the reads
\* are, in order and without gaps or repeats, the chunks the resampler
\* emitted, whatever the sizes asked for.
C22_NoLossNoDuplication ==
  Alive => RefillOnlyWhenExhausted /\ NoLossNoDuplication

\* the same for sessions never opened again while holding a resource
C22_WithoutReopen ==
  (Alive /\ reopens = 0) => RefillOnlyWhenExhausted /\ NoLossNoDuplication

\* C23: since the last reset (open, successful seek, close) the flush packet
\* was sent once if eofSignaled is set and not at all otherwise; it is sent in
\* the step that sets eofSignaled, right after the source reported its end;
\* and with eofSignaled set no packet is read from the source or sent to the
\* decoder.
C23_FlushOnce ==
  /\ stream.flushes = IF eofSignaled THEN 1 ELSE 0
  /\ last.op = "read" =>
       \A i \in DOMAIN last.log :
          /\ last.log[i].ev = "send_flush" =>
               /\ last.log[i].eof
               /\ i > 1 /\ last.log[i - 1].ev = "read_eof"
               /\ ~last.log[i - 1].eof
          /\ last.log[i].ev \in ReadEvents \cup SendEvents \cup {"skip"} =>
               ~last.log[i].eof
          /\ (i > 1 /\ last.log[i].eof /\ ~last.log[i - 1].eof) =>
               last.log[i].ev = "send_flush"

\* a read that began with eofSignaled set and made backend calls
C23_Witness ==
  /\ Streamed /\ last.log # << >> /\ last.log[1].eof
  /\ stream.flushes = 1

\* the resampler context exists but its last swr_init failed
ResamplerDown == formatCtx /\ swrCtx /\ ~swrInit

\* C25: a seek in which swr_init fails still returns true and resets the
\* staging buffer and the three drain flags; every read made while the
\* resampler is in that state returns 0 samples, copies nothing, stops on an
\* error of the decode loop when it asked for samples into a buffer, and does
\* not crash;
\* only an open, a close or a seek whose swr_init succeeds ends that state.
C25_SeekWithFailedReinit ==
  [][ /\ (swrInit /\ ResamplerDown') =>
           /\ last'.op = "seek" /\ last'.ok
           /\ samplesInBuffer' = 0 /\ bufferReadPos' = 0
           /\ ~eofSignaled' /\ ~decoderDrained' /\ ~resamplerDrained'
      /\ (ResamplerDown /\ last'.op = "read") =>
           /\ last'.ret = 0 /\ last'.copied = 0
           /\ (last'.ok /\ last'.asked) => last'.err
           /\ ~crashed' /\ ~last'.hang
           /\ stream'.out = << >>
           /\ ResamplerDown'
      /\ (ResamplerDown /\ ~ResamplerDown') =>
           last'.op \in {"open", "close", "seek"}
    ]_vars

\* a read asking for samples after a seek whose swr_init failed
C25_Witness ==
  /\ ResamplerDown /\ stream.kind = "seek"
  /\ Streamed /\ last.asked /\ last.ret = 0 /\ last.err
  /\ pos > stream.from

\* the last call was a read for a positive count that returned 0 at the
\* terminal state
ReadAtEnd == Terminal /\ Streamed /\ last.asked /\ last.ret = 0

\* this step is a read for a positive count that returns fewer samples and
\* does not reach the terminal state
ShortBeforeEnd ==
  /\ last'.op = "read" /\ last'.ok /\ last'.asked /\ last'.short
  /\ ~Terminal'

\* this step took a packet from the source or met its end
ConsumedInput == pos' > pos \/ (~eofSignaled /\ eofSignaled')

\* C24: with the session open on an error-free source and never sought,
\* repeated reads for a positive count eventually reach the terminal state
\* and return 0; and every read that returns 0 or short before the terminal
\* state has consumed input of the source.
C24_ReadingReachesEnd ==
  /\ [][ShortBeforeEnd => ConsumedInput]_vars
  /\ <>ReadAtEnd

\* the first half alone: the terminal state is reached and read returns 0
C24_EventuallyEnd == <>ReadAtEnd

\* the second half for a resampler that keeps back one sample frame
C24_ShortDelayProgress ==
  [][(swrDelay = SwrDelay /\ ShortBeforeEnd) => ConsumedInput]_vars
====
